---- MODULE Spec2Model ----
(***************************************************************************)
(* Model of point_cloud/core.py and docker/cpoints.py: the pipeline that   *)
(* loads labelled 3D points, computes the centroid of the whole cloud and, *)
(* for every "B" point, a "C" point displaced outwards from the centroid.  *)
(*                                                                         *)
(* Floating point values are modelled by exact real numbers of the form    *)
(* a + b*sqrt(m) (a, b rational, m a squarefree integer), together with    *)
(* the IEEE special values nan and +-inf that numpy produces for 0/0 and   *)
(* x/0.  Rounding is not modelled.                                         *)
(***************************************************************************)
EXTENDS Integers, Sequences, FiniteSets, TLC

(***************************************************************************)
(* Bounds of the model.                                                    *)
(***************************************************************************)
MaxLines == 4
MaxPts == 2
MaxCoord == 1
MaxFrame == 3
MaxLoadLines == 2

(***************************************************************************)
(* Integer helpers.                                                        *)
(***************************************************************************)
Abs(i) == IF i < 0 THEN -i ELSE i

Sgn(i) == IF i < 0 THEN -1 ELSE IF i > 0 THEN 1 ELSE 0

RECURSIVE GcdNat(_, _)
GcdNat(i, j) == IF j = 0 THEN i ELSE GcdNat(j, i % j)

Gcd(i, j) == GcdNat(Abs(i), Abs(j))

\* largest k >= from with k*k dividing n, or 1 when there is none (n >= 1)
RECURSIVE SquareFrom(_, _)
SquareFrom(n, from) ==
    IF from * from > n THEN 1
    ELSE LET above == SquareFrom(n, from + 1)
         IN  IF above > 1 THEN above
             ELSE IF n % (from * from) = 0 THEN from ELSE 1

SquarePart(n) == SquareFrom(n, 1)

(***************************************************************************)
(* Floats.  k = "num": the real number an/ad + (bn/bd)*sqrt(m), fractions  *)
(* in lowest terms, m squarefree, m = 1 iff bn = 0.  k = "nan": not a      *)
(* number.  k = "inf": an is the sign of the infinity.                     *)
(***************************************************************************)
Mk(an, ad, bn, bd, m) ==
    LET ga == Gcd(an, ad)
        gb == Gcd(bn, bd)
    IN  IF bn = 0
        THEN [k |-> "num", an |-> (Sgn(ad) * an) \div ga, ad |-> Abs(ad) \div ga,
              bn |-> 0, bd |-> 1, m |-> 1]
        ELSE [k |-> "num", an |-> (Sgn(ad) * an) \div ga, ad |-> Abs(ad) \div ga,
              bn |-> (Sgn(bd) * bn) \div gb, bd |-> Abs(bd) \div gb, m |-> m]

NaN == [k |-> "nan", an |-> 0, ad |-> 1, bn |-> 0, bd |-> 1, m |-> 1]

Inf(s) == [k |-> "inf", an |-> s, ad |-> 1, bn |-> 0, bd |-> 1, m |-> 1]

Rat(n, d) == Mk(n, d, 0, 1, 1)

Flt(i) == Rat(i, 1)

IsNum(x) == x.k = "num"

IsNaN(x) == x.k = "nan"

\* the field Q(sqrt(m)) two numbers live in; a rational lives in every field
FieldOf(x, y) == IF x.bn # 0 THEN x.m ELSE y.m

\* sign of a number (-1, 0, 1); nan has no sign and is reported as 0
Sign(x) ==
    IF x.k = "inf" THEN x.an
    ELSE IF x.k = "nan" THEN 0
    ELSE LET sa == Sgn(x.an)
             sb == Sgn(x.bn)
         IN  IF sb = 0 THEN sa
             ELSE IF sa = 0 THEN sb
             ELSE IF sa = sb THEN sa
             ELSE \* compare |a| with |b|*sqrt(m): a^2 * bd^2 against b^2 * m * ad^2
                  LET l == x.an * x.an * x.bd * x.bd
                      r == x.bn * x.bn * x.m * x.ad * x.ad
                  IN  IF l > r THEN sa ELSE sb

IsZero(x) == IsNum(x) /\ x.an = 0 /\ x.bn = 0

Neg(x) ==
    IF x.k = "nan" THEN NaN
    ELSE IF x.k = "inf" THEN Inf(-x.an)
    ELSE Mk(-x.an, x.ad, -x.bn, x.bd, x.m)

Add(x, y) ==
    IF x.k = "nan" \/ y.k = "nan" THEN NaN
    ELSE IF x.k = "inf" /\ y.k = "inf" THEN (IF x.an = y.an THEN x ELSE NaN)
    ELSE IF x.k = "inf" THEN x
    ELSE IF y.k = "inf" THEN y
    ELSE Mk(x.an * y.ad + y.an * x.ad, x.ad * y.ad,
            x.bn * y.bd + y.bn * x.bd, x.bd * y.bd, FieldOf(x, y))

Sub(x, y) == Add(x, Neg(y))

Mul(x, y) ==
    IF x.k = "nan" \/ y.k = "nan" THEN NaN
    ELSE IF x.k = "inf" \/ y.k = "inf"
         THEN (IF Sign(x) * Sign(y) = 0 THEN NaN ELSE Inf(Sign(x) * Sign(y)))
    ELSE LET m == FieldOf(x, y)
         IN  \* (a1 + b1 s)(a2 + b2 s) = a1 a2 + b1 b2 m + (a1 b2 + a2 b1) s
             Mk(x.an * y.an * x.bd * y.bd + x.bn * y.bn * m * x.ad * y.ad,
                x.ad * y.ad * x.bd * y.bd,
                x.an * y.bn * y.ad * x.bd + y.an * x.bn * x.ad * y.bd,
                x.ad * y.bd * y.ad * x.bd, m)

\* 1/y for a nonzero number y: (a - b s) / (a^2 - b^2 m)
Recip(y) ==
    LET m == y.m
        nn == y.an * y.an * y.bd * y.bd - y.bn * y.bn * m * y.ad * y.ad
        dd == y.ad * y.ad * y.bd * y.bd
    IN  Mul(Mk(y.an, y.ad, -y.bn, y.bd, m), Rat(dd, nn))

\* IEEE division: 0/0 = nan, x/0 = +-inf, x/inf = 0, inf/inf = nan
Div(x, y) ==
    IF x.k = "nan" \/ y.k = "nan" THEN NaN
    ELSE IF y.k = "inf" THEN (IF x.k = "inf" THEN NaN ELSE Flt(0))
    ELSE IF x.k = "inf" THEN Inf(IF Sign(y) < 0 THEN -x.an ELSE x.an)
    ELSE IF IsZero(y) THEN (IF IsZero(x) THEN NaN ELSE Inf(Sign(x)))
    ELSE Mul(x, Recip(y))

\* square root of a non-negative rational p/q = sqrt(p*q)/q = k*sqrt(m)/q
Sqrt(x) ==
    IF x.k = "nan" THEN NaN
    ELSE IF x.k = "inf" THEN (IF x.an > 0 THEN x ELSE NaN)
    ELSE IF x.an < 0 THEN NaN
    ELSE IF x.an = 0 THEN Flt(0)
    ELSE LET pq == x.an * x.ad
             kk == SquarePart(pq)
             mm == pq \div (kk * kk)
         IN  IF mm = 1 THEN Rat(kk, x.ad) ELSE Mk(0, 1, kk, x.ad, mm)

(***************************************************************************)
(* Arrays of floats: a point is a tuple <<x, y, z>>, a 2-D array is a      *)
(* sequence of points.  A cell of an object array may hold a string (a     *)
(* token pandas could not convert); no operation uses the text of it.      *)
(***************************************************************************)
Str == [k |-> "str", an |-> 0, ad |-> 1, bn |-> 0, bd |-> 1, m |-> 1]

IsStr(x) == x.k = "str"

Pt(x, y, z) == <<Flt(x), Flt(y), Flt(z)>>

VSub(u, v) == [i \in 1..3 |-> Sub(u[i], v[i])]

VAdd(u, v) == [i \in 1..3 |-> Add(u[i], v[i])]

VScale(u, c) == [i \in 1..3 |-> Mul(u[i], c)]

VDiv(u, c) == [i \in 1..3 |-> Div(u[i], c)]

Dot(u, v) == Add(Add(Mul(u[1], v[1]), Mul(u[2], v[2])), Mul(u[3], v[3]))

Cross(u, v) == << Sub(Mul(u[2], v[3]), Mul(u[3], v[2])),
                  Sub(Mul(u[3], v[1]), Mul(u[1], v[3])),
                  Sub(Mul(u[1], v[2]), Mul(u[2], v[1])) >>

\* np.linalg.norm: the Euclidean norm
Norm(u) == Sqrt(Dot(u, u))

RECURSIVE SumCol(_, _, _)
SumCol(points, i, n) ==
    IF n = 0 THEN Flt(0) ELSE Add(SumCol(points, i, n - 1), points[n][i])

\* ndarray.mean of column i: the sum divided by the number of rows
Mean(points, i) == Div(SumCol(points, i, Len(points)), Flt(Len(points)))

Ok(v) == [raised |-> "none", value |-> v]

Raise(e) == [raised |-> e, value |-> <<>>]

(***************************************************************************)
(* get_centroid (core.py 30-37).  A column holding a string cannot be      *)
(* summed and divided: TypeError.  An empty array has mean 0/0 = nan.      *)
(***************************************************************************)
get_centroid(points) ==
    IF \E n \in 1..Len(points), i \in 1..3 : IsStr(points[n][i])
    THEN Raise("TypeError")
    ELSE Ok([i \in 1..3 |-> Mean(points, i)])

(***************************************************************************)
(* get_labeled_points (core.py 40-47).  A DataFrame is a sequence of rows  *)
(* [label, x, y, z]; the boolean mask keeps the rows whose label equals    *)
(* the target, in order.                                                   *)
(***************************************************************************)
Coords(row) == <<row.x, row.y, row.z>>

HasLabel(row, label) == row.label.k = "str" /\ row.label.s = label

\* a mask that returns the matching rows last to first
RECURSIVE Mask_reversed(_, _)
Mask_reversed(input_data, label) ==
    IF input_data = <<>> THEN <<>>
    ELSE IF HasLabel(Head(input_data), label)
         THEN Mask_reversed(Tail(input_data), label) \o <<Head(input_data)>>
         ELSE Mask_reversed(Tail(input_data), label)

RECURSIVE Mask(_, _)
Mask(input_data, label) ==
    IF input_data = <<>> THEN <<>>
    ELSE IF HasLabel(Head(input_data), label)
         THEN <<Head(input_data)>> \o Mask(Tail(input_data), label)
         ELSE Mask(Tail(input_data), label)

Values(frame) == [n \in 1..Len(frame) |-> Coords(frame[n])]

get_labeled_points(input_data, label) == Values(Mask(input_data, label))

(***************************************************************************)
(* calculate_C_point (core.py 50-59).                                      *)
(***************************************************************************)
\* the direction left unnormalised
calculate_C_point_unnormalised(B_point, centroid, distance) ==
    VAdd(B_point, VScale(VSub(B_point, centroid), distance))

\* the unit direction added without the distance
calculate_C_point_unit(B_point, centroid, distance) ==
    VAdd(B_point, VDiv(VSub(B_point, centroid), Norm(VSub(B_point, centroid))))

calculate_C_point(B_point, centroid, distance) ==
    LET outwards_direction == VDiv(VSub(B_point, centroid),
                                   Norm(VSub(B_point, centroid)))
    IN  VAdd(B_point, VScale(outwards_direction, distance))

\* np.apply_along_axis over the rows: refuses an array without rows
apply_C_point(B_points, centroid, distance) ==
    IF Len(B_points) = 0
    THEN Raise("ValueError")
    ELSE Ok([n \in 1..Len(B_points) |->
                calculate_C_point(B_points[n], centroid, distance)])

(***************************************************************************)
(* load_input_data (core.py 21-27): pd.read_csv(path, delimiter=" ",       *)
(* names=[label, x, y, z]).  A file is [exists, lines]; a line is the      *)
(* sequence of its space-separated tokens.                                 *)
(***************************************************************************)
NumTok == {"0", "1", "2", "-1", "0.5"}

\* the float a numeric token denotes
Parse(tok) ==
    CASE tok = "0" -> Flt(0)
      [] tok = "1" -> Flt(1)
      [] tok = "2" -> Flt(2)
      [] tok = "-1" -> Flt(-1)
      [] tok = "0.5" -> Rat(1, 2)

Names == 4

\* number of fields the parser expects: the four names, or the width of
\* the first line when that is wider
Expected(lines) == IF Len(lines[1]) > Names THEN Len(lines[1]) ELSE Names

\* the token of column c (1..4) of a line, "" when the line is too short;
\* fields in front of the last four of a wide first line become the index
Field(lines, n, c) ==
    LET pos == Expected(lines) - Names + c
    IN  IF pos <= Len(lines[n]) THEN lines[n][pos] ELSE ""

\* a column is numeric when every token present in it converts
NumericCol(lines, c) ==
    \A n \in 1..Len(lines) : Field(lines, n, c) \in NumTok \cup {""}

Cell(lines, n, c) ==
    IF Field(lines, n, c) = "" THEN NaN
    ELSE IF NumericCol(lines, c) THEN Parse(Field(lines, n, c))
    ELSE Str

LabelCell(lines, n) ==
    IF Field(lines, n, 1) = "" THEN [k |-> "nan", s |-> ""]
    ELSE IF NumericCol(lines, 1) THEN [k |-> "num", s |-> Field(lines, n, 1)]
    ELSE [k |-> "str", s |-> Field(lines, n, 1)]

load_input_data(file) ==
    IF ~file.exists THEN Raise("FileNotFoundError")
    ELSE IF file.lines = <<>> THEN Raise("EmptyDataError")
    ELSE IF \E n \in 2..Len(file.lines) : Len(file.lines[n]) > Expected(file.lines)
         THEN Raise("ParserError")
    ELSE Ok([n \in 1..Len(file.lines) |->
                [label |-> LabelCell(file.lines, n),
                 x |-> Cell(file.lines, n, 2),
                 y |-> Cell(file.lines, n, 3),
                 z |-> Cell(file.lines, n, 4)]])

(***************************************************************************)
(* plot_convex_hull (core.py 62-72): scipy's ConvexHull refuses a point    *)
(* set that is not full-dimensional (fewer than four points, or all in one *)
(* plane) or that holds a nan.                                             *)
(***************************************************************************)
Det3(u, v, w) == Dot(u, Cross(v, w))

FullDimensional(points) ==
    \E i, j, k, l \in 1..Len(points) :
        /\ i < j /\ j < k /\ k < l
        /\ ~IsZero(Det3(VSub(points[j], points[i]), VSub(points[k], points[i]),
                        VSub(points[l], points[i])))

plot_convex_hull(points) ==
    IF \E n \in 1..Len(points), i \in 1..3 : ~IsNum(points[n][i])
    THEN Raise("QhullError")
    ELSE IF ~FullDimensional(points) THEN Raise("QhullError")
    ELSE Ok(points)

(***************************************************************************)
(* State.  The run of calculate_C_points (core.py 128-152), started from   *)
(* the script cpoints.py or by a direct call:                              *)
(*   pc          position in the run                                       *)
(*   entry       how the run was started: "script" or "call"               *)
(*   environ     the process environment the script read                   *)
(*   args        output_plot_file and distance of the call                 *)
(*   file        the input file as found by the loader                     *)
(*   input_data, centroid, B_points, C_points   the locals of the run      *)
(*   outFile, plotFile   the two output files on disk                      *)
(*   error       the exception that ended the run, "none" otherwise        *)
(* and, for the functions called on their own:                             *)
(*   call        the function and its arguments                            *)
(*   ret         what the call returned or raised                          *)
(***************************************************************************)
VARIABLES pc, entry, environ, args, file, input_data, centroid, B_points, C_points,
          outFile, plotFile, error, call, ret

vars == <<pc, entry, environ, args, file, input_data, centroid, B_points, C_points,
          outFile, plotFile, error, call, ret>>

runVars == <<pc, entry, environ, args, file, input_data, centroid, B_points, C_points,
             outFile, plotFile, error>>

Unset == "<unset>"

None == "<None>"

\* Python truth value of an optional path
Truthy(path) == path # None /\ path # ""

Line(label, x, y, z) == <<label, x, y, z>>

\* the lines input files of the run are made of
RunLines == { Line("A", "0", "0", "0"), Line("A", "2", "0", "0"),
              Line("B", "1", "1", "0"), Line("B", "0", "0", "1"),
              Line("B", "x", "0", "0") }

SeqsUpTo(S, n) == UNION { [1..m -> S] : m \in 0..n }

RunDistances == { Flt(0), Flt(1) }

Environs == [ INPUT_DATA_FILE : {Unset, "in.txt"},
              OUTPUT_DATA_FILE : {Unset, "out.txt"},
              OUTPUT_PLOT_FILE : {Unset, "", "plot.png"} ]

NoFile == [exists |-> FALSE, lines |-> <<>>]

NoCall == [fn |-> "none"]

InitRun ==
    /\ pc = "idle"
    /\ entry = "none"
    /\ environ = [INPUT_DATA_FILE |-> Unset, OUTPUT_DATA_FILE |-> Unset,
                  OUTPUT_PLOT_FILE |-> Unset]
    /\ args = [output_plot_file |-> None, distance |-> Flt(1)]
    /\ file = NoFile
    /\ input_data = <<>>
    /\ centroid = <<>>
    /\ B_points = <<>>
    /\ C_points = <<>>
    /\ outFile = NoFile
    /\ plotFile = FALSE
    /\ error = "none"

Init == InitRun /\ call = NoCall /\ ret = NoCall

Fail(e) == /\ error' = e
           /\ pc' = "done"

(***************************************************************************)
(* cpoints.py 4-8: the three paths come from environ[...], which raises    *)
(* KeyError for a variable that is not set; the distance is the default.   *)
(***************************************************************************)
cpoints ==
    /\ pc = "idle"
    /\ entry' = "script"
    /\ \E env \in Environs :
        /\ environ' = env
        /\ IF \/ env.INPUT_DATA_FILE = Unset
              \/ env.OUTPUT_DATA_FILE = Unset
              \/ env.OUTPUT_PLOT_FILE = Unset
           THEN Fail("KeyError") /\ UNCHANGED args
           ELSE /\ args' = [output_plot_file |-> env.OUTPUT_PLOT_FILE,
                            distance |-> Flt(1)]
                /\ pc' = "load"
                /\ UNCHANGED error
    /\ UNCHANGED <<file, input_data, centroid, B_points, C_points, outFile,
                   plotFile, call, ret>>

\* core.py 128-133: a direct call, output_plot_file defaulting to None
Call ==
    /\ pc = "idle"
    /\ \E plot \in {None, "plot.png"}, d \in RunDistances :
        args' = [output_plot_file |-> plot, distance |-> d]
    /\ pc' = "load"
    /\ entry' = "call"
    /\ UNCHANGED <<environ, file, input_data, centroid, B_points, C_points,
                   outFile, plotFile, error, call, ret>>

\* core.py 136-137
Load ==
    /\ pc = "load"
    /\ \E f \in { [exists |-> TRUE, lines |-> ls] : ls \in SeqsUpTo(RunLines, MaxLines) }
                \cup { NoFile } :
        /\ file' = f
        /\ LET df == load_input_data(f)
           IN  IF df.raised # "none"
               THEN Fail(df.raised) /\ UNCHANGED input_data
               ELSE /\ input_data' = df.value
                    /\ pc' = "calc"
                    /\ UNCHANGED error
    /\ UNCHANGED <<entry, environ, args, centroid, B_points, C_points, outFile,
                   plotFile, call, ret>>

\* the centroid taken of the B points only
CentroidInput_B_only(frame) == get_labeled_points(frame, "B")

\* the array the centroid is taken of (core.py 140)
CentroidInput(frame) == Values(frame)

\* core.py 139-142
Calculate ==
    /\ pc = "calc"
    /\ LET c == get_centroid(CentroidInput(input_data))
           bs == get_labeled_points(input_data, "B")
       IN  IF c.raised # "none"
           THEN Fail(c.raised) /\ UNCHANGED <<centroid, B_points, C_points>>
           ELSE LET cs == apply_C_point(bs, c.value, args.distance)
                IN  /\ centroid' = c.value
                    /\ B_points' = bs
                    /\ IF cs.raised # "none"
                       THEN Fail(cs.raised) /\ UNCHANGED C_points
                       ELSE /\ C_points' = cs.value
                            /\ pc' = "save"
                            /\ UNCHANGED error
    /\ UNCHANGED <<entry, environ, args, file, input_data, outFile, plotFile,
                   call, ret>>

\* core.py 144-145: np.savetxt writes one line per row of C_points, or
\* fails to open the destination
Save ==
    /\ pc = "save"
    /\ \E writable \in BOOLEAN :
        IF writable
        THEN /\ outFile' = [exists |-> TRUE, lines |-> C_points]
             /\ pc' = IF Truthy(args.output_plot_file) THEN "plot" ELSE "finish"
             /\ UNCHANGED error
        ELSE Fail("OSError") /\ UNCHANGED outFile
    /\ UNCHANGED <<entry, environ, args, file, input_data, centroid, B_points,
                   C_points, plotFile, call, ret>>

\* core.py 147-150: plot_ABC draws the hull of all points, savefig writes
Plot ==
    /\ pc = "plot"
    /\ LET hull == plot_convex_hull(Values(input_data))
       IN  IF hull.raised # "none"
           THEN Fail(hull.raised) /\ UNCHANGED plotFile
           ELSE \E writable \in BOOLEAN :
                   IF writable
                   THEN /\ plotFile' = TRUE
                        /\ pc' = "finish"
                        /\ UNCHANGED error
                   ELSE Fail("OSError") /\ UNCHANGED plotFile
    /\ UNCHANGED <<entry, environ, args, file, input_data, centroid, B_points,
                   C_points, outFile, call, ret>>

\* core.py 152
Done ==
    /\ pc = "finish"
    /\ pc' = "done"
    /\ UNCHANGED <<entry, environ, args, file, input_data, centroid, B_points,
                   C_points, outFile, plotFile, error, call, ret>>

Next == cpoints \/ Call \/ Load \/ Calculate \/ Save \/ Plot \/ Done

Spec == Init /\ [][Next]_vars

(***************************************************************************)
(* The functions of core.py called on their own: Init draws a call, the    *)
(* action of the function called sets ret to what it returns or raises.    *)
(***************************************************************************)
Lattice == { Pt(x, y, z) : x \in 0..MaxCoord, y \in 0..MaxCoord, z \in 0..MaxCoord }

\* an array holding a token that did not convert
ObjectArray == << <<Str, Flt(0), Flt(0)>> >>

\* centroids to displace from: the midpoints of two lattice points and the
\* centroid of the rows A 0 0 0, A 2 0 0, B 1 1 0
Centroids == { <<Rat(i, 2), Rat(j, 2), Rat(k, 2)>> :
                 i \in 0..(2 * MaxCoord), j \in 0..(2 * MaxCoord), k \in 0..(2 * MaxCoord) }
             \cup { get_centroid(<<Pt(0, 0, 0), Pt(2, 0, 0), Pt(1, 1, 0)>>).value }

Distances == { Flt(-1), Flt(0), Flt(1), Flt(2) }

Label(s) == [k |-> "str", s |-> s]

FrameRows == { [label |-> Label(l), x |-> p[1], y |-> p[2], z |-> p[3]] :
                 l \in {"A", "B"}, p \in {Pt(0, 0, 0), Pt(1, 0, 0)} }

Labels == {"A", "B", "C"}

LoadLines == { <<"B">> \o t : t \in UNION { [1..m -> {"1", "x"}] : m \in 2..4 } }

InitFn ==
    /\ InitRun
    /\ ret = NoCall
    /\ \/ \E ps \in SeqsUpTo(Lattice, MaxPts) \cup {ObjectArray} :
             call = [fn |-> "get_centroid", points |-> ps]
       \/ \E b \in Lattice, c \in Centroids, d \in Distances :
             call = [fn |-> "calculate_C_point", B_point |-> b, centroid |-> c,
                     distance |-> d]
       \/ \E df \in SeqsUpTo(FrameRows, MaxFrame), l \in Labels :
             call = [fn |-> "get_labeled_points", input_data |-> df, label |-> l]
       \/ \E ls \in SeqsUpTo(LoadLines, MaxLoadLines) :
             call = [fn |-> "load_input_data", path |-> [exists |-> TRUE, lines |-> ls]]
       \/ call = [fn |-> "load_input_data", path |-> NoFile]

Fn_get_centroid ==
    /\ call.fn = "get_centroid" /\ ret = NoCall
    /\ ret' = [fn |-> call.fn, result |-> get_centroid(call.points)]
    /\ UNCHANGED <<runVars, call>>

\* input_data is the frame as it is after the call: the function assigns
\* to nothing but its local subset
Fn_get_labeled_points ==
    /\ call.fn = "get_labeled_points" /\ ret = NoCall
    /\ ret' = [fn |-> call.fn,
               result |-> Ok(get_labeled_points(call.input_data, call.label)),
               input_data |-> call.input_data]
    /\ UNCHANGED <<runVars, call>>

Fn_calculate_C_point ==
    /\ call.fn = "calculate_C_point" /\ ret = NoCall
    /\ ret' = [fn |-> call.fn,
               result |-> Ok(calculate_C_point(call.B_point, call.centroid,
                                               call.distance))]
    /\ UNCHANGED <<runVars, call>>

Fn_load_input_data ==
    /\ call.fn = "load_input_data" /\ ret = NoCall
    /\ ret' = [fn |-> call.fn, result |-> load_input_data(call.path)]
    /\ UNCHANGED <<runVars, call>>

NextFn == \/ Fn_get_centroid
          \/ Fn_get_labeled_points
          \/ Fn_calculate_C_point
          \/ Fn_load_input_data

SpecFn == InitFn /\ [][NextFn]_vars

(***************************************************************************)
(* Properties.                                                             *)
(***************************************************************************)
Returned(fn) == ret.fn = fn

\* every coordinate of every row of a frame is a real number
AllReal(frame) ==
    \A n \in 1..Len(frame) : IsNum(frame[n].x) /\ IsNum(frame[n].y) /\ IsNum(frame[n].z)

\* the rows of a frame that carry a label
Matching(frame, label) == { n \in 1..Len(frame) : HasLabel(frame[n], label) }

\* points is the subsequence of the rows of frame labelled label
IsSelection(points, frame, label) ==
    /\ Len(points) = Cardinality(Matching(frame, label))
    /\ \A n \in Matching(frame, label) :
          points[Cardinality({ j \in Matching(frame, label) : j <= n })] = Coords(frame[n])

\* C1: calculate_C_point fails when B_point coincides with the centroid
\* instead of returning a point.
C1_DegenerateFails ==
    (Returned("calculate_C_point") /\ call.B_point = call.centroid)
        => ret.result.raised # "none"

\* C2: the output data file exists at the end of a run only if the run
\* completed without any failure.
C2_NoOutputOnFailure ==
    (pc = "done" /\ outFile.exists) => error = "none"

(***************************************************************************)
(* The three statements of C3 about C = calculate_C_point(b, c, distance): *)
(* |b - c| * (C - b) = distance * (b - c), which is the formula with the   *)
(* division multiplied out; |C - b| = distance; and C - c is a positive    *)
(* multiple of b - c (parallel, with a positive scalar product).           *)
(***************************************************************************)
IsOffsetFormula(C, b, c, distance) ==
    \A i \in 1..3 :
        Mul(Norm(VSub(b, c)), Sub(C[i], b[i])) = Mul(distance, Sub(b[i], c[i]))

AtDistance(C, b, distance) ==
    /\ Sign(distance) >= 0
    /\ Dot(VSub(C, b), VSub(C, b)) = Mul(distance, distance)

OnRayBeyond(C, b, c) ==
    /\ \A i \in 1..3 : IsZero(Cross(VSub(C, c), VSub(b, c))[i])
    /\ Sign(Dot(VSub(C, c), VSub(b, c))) > 0

SpecExample ==
    /\ call.B_point = Pt(1, 1, 0)
    /\ call.centroid = <<Flt(1), Rat(1, 3), Flt(0)>>
    /\ call.distance = Flt(1)

\* C3 as stated: for b # c and every distance the result is
\* b + distance * (b - c) / |b - c|, lies at distance `distance` from b and
\* on the ray from c through b.
C3_Original ==
    (Returned("calculate_C_point") /\ call.B_point # call.centroid)
        => /\ IsOffsetFormula(ret.result.value, call.B_point, call.centroid, call.distance)
           /\ AtDistance(ret.result.value, call.B_point, call.distance)
           /\ OnRayBeyond(ret.result.value, call.B_point, call.centroid)

\* C3 amended: for b # c the result is b + distance * (b - c) / |b - c| for
\* every distance; when distance >= 0 it lies at distance `distance` from b
\* and C - c is a positive multiple of b - c; the example of the
\* specification gives (1, 2, 0).
C3_Outward ==
    (Returned("calculate_C_point") /\ call.B_point # call.centroid)
        => /\ ret.result.raised = "none"
           /\ IsOffsetFormula(ret.result.value, call.B_point, call.centroid, call.distance)
           /\ Sign(call.distance) >= 0
                => /\ AtDistance(ret.result.value, call.B_point, call.distance)
                   /\ OnRayBeyond(ret.result.value, call.B_point, call.centroid)
           /\ SpecExample => ret.result.value = Pt(1, 2, 0)

C3_Witness ==
    /\ Returned("calculate_C_point")
    /\ SpecExample
    /\ ret.result.value = Pt(1, 2, 0)

\* the failures of the error taxonomy as the code raises them
TaxonomyErrors == {"FileNotFoundError", "EmptyDataError", "ParserError",
                   "TypeError", "QhullError", "OSError"}

\* C4: for every loaded collection, also one without B points, a run that
\* meets no failure of the taxonomy writes one line per B-labelled row, the
\* i-th line derived from the i-th B row.
C4_OneLinePerB ==
    (pc = "done" /\ file.exists /\ error \notin TaxonomyErrors)
        => /\ outFile.exists
           /\ Len(outFile.lines) = Cardinality(Matching(input_data, "B"))
           /\ \A n \in 1..Len(outFile.lines) :
                 outFile.lines[n] = calculate_C_point(B_points[n], centroid, args.distance)
           /\ IsSelection(B_points, input_data, "B")

\* C5: get_labeled_points returns the coordinates of the rows labelled
\* `label`, in their original order, empty when there is none, raises
\* nothing and leaves input_data as it was.
C5_Selection ==
    Returned("get_labeled_points")
        => /\ ret.result.raised = "none"
           /\ IsSelection(ret.result.value, call.input_data, call.label)
           /\ Matching(call.input_data, call.label) = {} => ret.result.value = <<>>
           /\ ret.input_data = call.input_data

C5_Witness ==
    /\ Returned("get_labeled_points")
    /\ Len(call.input_data) = 3
    /\ Matching(call.input_data, call.label) = {1, 3}
    /\ Coords(call.input_data[1]) # Coords(call.input_data[3])
    /\ ret.result.value = <<Coords(call.input_data[1]), Coords(call.input_data[3])>>

\* C6: get_centroid fails on an empty sequence of points and never returns
\* a point or a nan for it.
C6_EmptyFails ==
    (Returned("get_centroid") /\ call.points = <<>>)
        => ret.result.raised # "none"

\* sum over the rows of the deviations of coordinate i from a value
RECURSIVE SumDev(_, _, _)
SumDev(points, i, mean) ==
    IF points = <<>> THEN Flt(0)
    ELSE Add(Sub(Head(points)[i], mean), SumDev(Tail(points), i, mean))

\* the array with rows n and n + 1 exchanged
Swap(points, n) ==
    [j \in 1..Len(points) |->
        IF j = n THEN points[n + 1] ELSE IF j = n + 1 THEN points[n] ELSE points[j]]

\* the centroid has been computed in this run
HasCentroid == centroid # <<>>

C8_ZeroDistance ==
    (/\ pc \in {"save", "plot", "finish", "done"}
     /\ HasCentroid
     /\ AllReal(input_data)
     /\ args.distance = Flt(0)
     /\ Matching(input_data, "B") # {}
     /\ \A n \in Matching(input_data, "B") : Coords(input_data[n]) # centroid)
        => /\ error \notin {"ValueError", "TypeError"}
           /\ Len(C_points) = Len(B_points)
           /\ \A n \in 1..Len(B_points) : C_points[n] = B_points[n]

C8_Witness ==
    /\ pc = "save"
    /\ args.distance = Flt(0)
    /\ AllReal(input_data)
    /\ Len(B_points) = 2
    /\ B_points[1] # B_points[2]
    /\ \A n \in 1..2 : B_points[n] # centroid
    /\ C_points = B_points

\* the run was started without an output plot path
NoPlotPath ==
    \/ entry = "call" /\ args.output_plot_file = None
    \/ /\ entry = "script"
       /\ environ.INPUT_DATA_FILE # Unset
       /\ environ.OUTPUT_DATA_FILE # Unset
       /\ environ.OUTPUT_PLOT_FILE = Unset

\* C9: a run started without an output plot path, by a call or by the
\* script, writes no image and the missing path causes no error: it ends
\* without error and with the output data file unless loading, computing
\* or writing the data failed.
C9_PlotPathOptional ==
    (pc = "done" /\ NoPlotPath)
        => /\ ~plotFile
           /\ error \notin {"KeyError", "QhullError"}
           /\ error = "none" => outFile.exists

\* a line of four tokens whose last three convert to numbers
WellFormed(line) ==
    /\ Len(line) = 4
    /\ \A c \in 2..4 : line[c] \in NumTok

\* C10: load_input_data fails whenever some line is not four tokens with
\* three numeric coordinates; it never returns a collection containing a
\* row with a missing or non-numeric coordinate.
C10_MalformedFails ==
    (/\ Returned("load_input_data")
     /\ call.path.exists
     /\ \E n \in 1..Len(call.path.lines) : ~WellFormed(call.path.lines[n]))
        => ret.result.raised # "none"

====
